---- MODULE Spec2Model ----
(***************************************************************************)
(* Model of day_12 (src/day_12/src/main.rs): the Row data model, the       *)
(* arrangement counter Row::arrangements, Row::unfold, Row::from_str and   *)
(* the two batch drivers solve_part_1 / solve_part_2.                      *)
(*                                                                         *)
(* Spec      applies the whole functions to rows drawn from bounded sets.  *)
(* StepSpec  executes Row::arrangements statement by statement with an     *)
(*           explicit call stack (one frame per recursive call).           *)
(* MemoSpec  is StepSpec on rows of up to MaxMemoLen cells.                 *)
(* MainSpec  runs main: solve_part_1 then solve_part_2 on an input text,   *)
(*           RunSpec the same on the bounded input texts alone.            *)
(* ParseSpec applies Row::from_str to one line.                            *)
(* SolveSpec executes a solver by steps: collect line by line, then the    *)
(*           rows mapped by the workers of the pool and summed.            *)
(***************************************************************************)
EXTENDS Integers, Sequences, FiniteSets, TLC

VARIABLES
    row,        \* the Row being unfolded / counted
    orig,       \* the Row as it was constructed
    pc,         \* "built" | "unfolded" | "counted"
    count,      \* value returned by Row::arrangements once pc = "counted"
    stack,      \* StepSpec: call stack of Row::arrangements, innermost last
    panicked,   \* StepSpec: a statement of Row::arrangements panicked
    input,      \* MainSpec: the text read from the input file
    part1,      \* MainSpec: None, or Some(result of solve_part_1(input))
    part2,      \* MainSpec: None, or Some(result of solve_part_2(input))
    exit_status,\* MainSpec: None while main runs, Some(status) once it exited
    expanded,   \* StepSpec: the (i, g, r) of every Unknown cell branched on
    row_line,   \* ParseSpec: the line handed to Row::from_str
    parsed,     \* ParseSpec: None, or Some(Row::from_str(row_line))
    part,       \* SolveSpec: 1 for solve_part_1, 2 for solve_part_2
    phase,      \* SolveSpec: "lines" | "map" | "done"
    next_line,  \* SolveSpec: number of lines consumed by collect
    row_vec,    \* SolveSpec: the Vec<Row> collected so far
    taken,      \* SolveSpec: indices of the rows handed to a worker
    job,        \* SolveSpec: per worker, None or Some(index of its row)
    counts,     \* SolveSpec: the value the map closure returned, per row
    wsum,       \* SolveSpec: per worker, the sum of the values it mapped
    result      \* SolveSpec: None, or Some(value returned by the solver)

rowVars == <<row, orig, pc, count>>
stepVars == <<stack, panicked, expanded>>
mainVars == <<input, part1, part2, exit_status>>
parseVars == <<row_line, parsed>>
solveVars == <<part, phase, next_line, row_vec, taken, job, counts, wsum, result>>
vars == <<rowVars, stepVars, mainVars, parseVars, solveVars>>

\* ------------------------------------------------------------------ bounds
MaxLen == 3          \* longest cell sequence of a constructed Row
MaxGroups == 2       \* longest groups list of a constructed Row
MaxGroupVal == 2     \* largest run length in a constructed Row
MaxUnfoldLen == 2    \* longest cell sequence that is unfolded before counting

\* ------------------------------------------------------- enum State (30-35)
Operational == "Operational"
Damaged == "Damaged"
Unknown == "Unknown"
State == {Operational, Damaged, Unknown}

\* ------------------------------------------------------ Option<usize>
None == <<>>
Some(v) == <<v>>
is_none(o) == o = None
unwrap(o) == o[1]

\* ------------------------------------------------------ struct Row (50-55)
Row(states, groups, active) ==
    [states |-> states, groups |-> groups, active |-> active]

\* ---------------------------------------------- outcomes of one iteration
\* of the loop body of Row::arrangements: fall through to the next cell with
\* the updated locals, return a value, recurse on the clone built at `index`,
\* or panic.
Continue(groups, active) ==
    [kind |-> "continue", groups |-> groups, active |-> active,
     value |-> 0, index |-> 0]
Return(value) ==
    [kind |-> "return", groups |-> <<>>, active |-> None,
     value |-> value, index |-> 0]
Branch(index, groups, active) ==
    [kind |-> "branch", groups |-> groups, active |-> active,
     value |-> 0, index |-> index]
Panic ==
    [kind |-> "panic", groups |-> <<>>, active |-> None,
     value |-> 0, index |-> 0]

\* usize::checked_sub
checked_sub(a, b) == IF a >= b THEN Some(a - b) ELSE None

\* Damaged arm that steps over a Damaged cell when no group is left
DamagedArm_NoGroupLeft(groups, active) ==
    IF is_none(active) /\ groups = <<>>
    THEN Continue(groups, active)
    ELSE LET removes == is_none(active)
             groups1 == IF removes THEN Tail(groups) ELSE groups
             active1 == IF removes THEN Some(Head(groups)) ELSE active
         IN  IF removes /\ Len(groups) = 0
             THEN Panic
             ELSE IF is_none(active1)
             THEN Return(0)
             ELSE IF is_none(checked_sub(unwrap(active1), 1))
             THEN Return(0)
             ELSE Continue(groups1, Some(unwrap(active1) - 1))

\* Damaged arm that starts the next run on a Damaged cell right after a
\* finished run
DamagedArm_StartsNextRun(groups, active) ==
    IF (is_none(active) \/ active = Some(0)) /\ groups = <<>>
    THEN Return(0)
    ELSE LET removes == is_none(active) \/ active = Some(0)
             groups1 == IF removes THEN Tail(groups) ELSE groups
             active1 == IF removes THEN Some(Head(groups)) ELSE active
         IN  IF is_none(checked_sub(unwrap(active1), 1))
             THEN Return(0)
             ELSE Continue(groups1, Some(unwrap(active1) - 1))

\* State::Damaged arm (lines 91-109)
DamagedArm(groups, active) ==
    IF is_none(active) /\ groups = <<>>
    THEN Return(0)
    ELSE LET removes == is_none(active)
             groups1 == IF removes THEN Tail(groups) ELSE groups
             active1 == IF removes THEN Some(Head(groups)) ELSE active
         IN  IF removes /\ Len(groups) = 0
             THEN Panic                       \* Vec::remove(0) out of bounds
             ELSE IF is_none(active1)
             THEN Return(0)
             ELSE IF is_none(checked_sub(unwrap(active1), 1))
             THEN Return(0)
             ELSE Continue(groups1, Some(unwrap(active1) - 1))

\* Mutant of OperationalArm: a finished run is not closed (active stays
\* Some(0)).
OperationalArm_KeepsRun(groups, active) ==
    IF is_none(active)
    THEN Continue(groups, active)
    ELSE IF unwrap(active) = 0
    THEN Continue(groups, active)
    ELSE Return(0)

\* Operational arm that ends a run whether or not it is finished
OperationalArm_EndsAnyRun(groups, active) == Continue(groups, None)

\* State::Operational arm (lines 110-118)
OperationalArm(groups, active) ==
    IF is_none(active)
    THEN Continue(groups, active)
    ELSE IF unwrap(active) = 0
    THEN Continue(groups, None)
    ELSE Return(0)

\* Mutant of UnknownArm: an Unknown cell inside an unfinished run is handled
\* like an Operational one.
UnknownArm_InRunIsClear(index, groups, active) ==
    IF ~is_none(active) /\ unwrap(active) > 0
    THEN Return(0)
    ELSE IF ~is_none(active) /\ unwrap(active) = 0
    THEN Continue(groups, None)
    ELSE Branch(index, groups, active)

\* Mutant of UnknownArm: the first test is `count >= 0`, so a finished run
\* (Some(0)) reaches the subtraction.
UnknownArm_Underflow(index, groups, active) ==
    IF ~is_none(active) /\ unwrap(active) >= 0
    THEN IF is_none(active) \/ unwrap(active) < 1
         THEN Panic
         ELSE Continue(groups, Some(unwrap(active) - 1))
    ELSE Branch(index, groups, active)

\* Unknown arm that rejects an Unknown cell right after a finished run
UnknownArm_RunEndIsDamaged(index, groups, active) ==
    IF ~is_none(active) /\ unwrap(active) > 0
    THEN Continue(groups, Some(unwrap(active) - 1))
    ELSE IF ~is_none(active) /\ unwrap(active) = 0
    THEN Return(0)
    ELSE Branch(index, groups, active)

\* State::Unknown arm (lines 119-141); the two recursive calls are made by
\* the caller of the arm on outcome "branch".  active.unwrap() - 1 panics on
\* None and, in a build with overflow checks, on 0; the test before it keeps
\* both away.
UnknownArm(index, groups, active) ==
    IF ~is_none(active) /\ unwrap(active) > 0
    THEN IF is_none(active) \/ unwrap(active) < 1
         THEN Panic                 \* Option::unwrap on None / usize underflow
         ELSE Continue(groups, Some(unwrap(active) - 1))
    ELSE IF ~is_none(active) /\ unwrap(active) = 0
    THEN Continue(groups, None)
    ELSE Branch(index, groups, active)

\* match state { ... } (lines 90-142)
Arm(index, state, groups, active) ==
    CASE state = Damaged -> DamagedArm(groups, active)
      [] state = Operational -> OperationalArm(groups, active)
      [] state = Unknown -> UnknownArm(index, groups, active)

\* while let Some(0) = groups.get(0) { groups.remove(0); } (lines 145-147)
RECURSIVE DropLeadingZeros(_)
DropLeadingZeros(groups) ==
    IF Len(groups) > 0 /\ Head(groups) = 0
    THEN DropLeadingZeros(Tail(groups))
    ELSE groups

\* Mutant of AfterLoop: every group removed by the while loop is counted.
AfterLoop_CountsRemoved(groups, active) ==
    IF DropLeadingZeros(groups) = <<>> THEN 1 + Len(groups) ELSE 0

\* AfterLoop that returns 1 whatever groups are left
AfterLoop_IgnoresGroups(groups, active) == 1

\* lines 145-153: the value returned when the loop runs off the end of the
\* cells.  `active` is a local of the function at this point but the code
\* does not read it.
AfterLoop(groups, active) ==
    IF DropLeadingZeros(groups) = <<>> THEN 1 ELSE 0

\* lines 127-131: the clone handed to the two recursive calls
CloneAt(self, index, groups, active) ==
    Row(SubSeq(self.states, index, Len(self.states)), groups, active)

\* clone.states[0] = v (lines 133, 136)
SetFirst(clone, v) == [clone EXCEPT !.states[1] = v]

\* for (index, state) in self.states.iter().enumerate() { match ... }
\* (lines 89-143): s is the outcome of the iterations before `index`; the
\* loop ends at the first outcome other than "continue" or after the last
\* cell.
RECURSIVE ForLoop(_, _, _)
ForLoop(self, index, s) ==
    IF s.kind # "continue" \/ index > Len(self.states)
    THEN s
    ELSE ForLoop(self, index + 1,
                 Arm(index, self.states[index], s.groups, s.active))

\* Row::arrangements (lines 85-154); a panic is reported as the value -1
RECURSIVE arrangements(_)
arrangements(self) ==
    LET s == ForLoop(self, 1, Continue(self.groups, self.active))
    IN  CASE s.kind = "continue" -> AfterLoop(s.groups, s.active)
          [] s.kind = "return" -> s.value
          [] s.kind = "branch" ->
               LET clone == CloneAt(self, s.index, s.groups, s.active)
               IN  arrangements(SetFirst(clone, Operational))
                   + arrangements(SetFirst(clone, Damaged))
          [] s.kind = "panic" -> -1

\* Mutant of unfold: take((n + 1) * 5), a separator after the last copy too.
unfold_TrailingSeparator(self) ==
    LET n == Len(self.states)
        m == Len(self.groups)
        chained == Append(self.states, Unknown)
        states == [p \in 1..((n + 1) * 5) |-> chained[((p - 1) % (n + 1)) + 1]]
        groups == [p \in 1..(m * 5) |-> self.groups[((p - 1) % m) + 1]]
    IN  Row(states, groups, None)

\* Mutant of unfold: the groups are chained with a separator like the cells.
unfold_GroupsSeparated(self) ==
    LET n == Len(self.states)
        m == Len(self.groups)
        chained == Append(self.states, Unknown)
        gchained == Append(self.groups, 0)
        states == [p \in 1..((n + 1) * 5 - 1) |-> chained[((p - 1) % (n + 1)) + 1]]
        groups == [p \in 1..(m * 5) |-> gchained[((p - 1) % (m + 1)) + 1]]
    IN  Row(states, groups, None)

\* unfold that joins the copies with an Operational cell
unfold_ClearSeparator(self) ==
    LET n == Len(self.states)
        m == Len(self.groups)
        chained == Append(self.states, Operational)
        states == [p \in 1..((n + 1) * 5 - 1) |-> chained[((p - 1) % (n + 1)) + 1]]
        groups == [p \in 1..(m * 5) |-> self.groups[((p - 1) % m) + 1]]
    IN  Row(states, groups, None)

\* Row::unfold (lines 156-164): chain(once(Unknown)).cycle().take((n+1)*5-1)
\* and cycle().take(m*5)
unfold(self) ==
    LET n == Len(self.states)
        m == Len(self.groups)
        chained == Append(self.states, Unknown)
        states == [p \in 1..((n + 1) * 5 - 1) |-> chained[((p - 1) % (n + 1)) + 1]]
        groups == [p \in 1..(m * 5) |-> self.groups[((p - 1) % m) + 1]]
    IN  Row(states, groups, None)

\* ------------------------------------------------------------ bounded inputs
SeqsOf(S, lo, hi) == UNION {[1..n -> S] : n \in lo..hi}

\* Rows as from_str, unfold and the clone of arrangements build them: at
\* least one cell, any groups (from_str accepts the token 0), active = None.
Rows ==
    {Row(states, groups, None) :
        states \in SeqsOf(State, 1, MaxLen),
        groups \in SeqsOf(0..MaxGroupVal, 0, MaxGroups)}

\* ------------------------------------------------------------------ text
\* A &str is a sequence of characters, each a string of length one.
AsciiWhitespace == {" ", "\t", "\n", "\r", "\f"}

\* Result<T, &'static str>
Ok(v) == [ok |-> v]
Err(e) == [err |-> e]
is_err(r) == "err" \in DOMAIN r

\* The pieces of s between the characters of seps, empty pieces included:
\* piece k lies between the (k-1)-th and the k-th separator.
Pieces(s, seps) ==
    LET at == {i \in 1..Len(s) : s[i] \in seps}
        n == Cardinality(at)
        sep(k) == IF k = 0 THEN 0
                  ELSE IF k = n + 1 THEN Len(s) + 1
                  ELSE CHOOSE q \in at : Cardinality({r \in at : r < q}) = k - 1
    IN  [k \in 1..(n + 1) |-> SubSeq(s, sep(k - 1) + 1, sep(k) - 1)]

\* str::split_ascii_whitespace (line 61): the non-empty pieces
split_ascii_whitespace(s) ==
    SelectSeq(Pieces(s, AsciiWhitespace), LAMBDA t : t # <<>>)

\* str::split(',') (line 73)
split(s, c) == Pieces(s, {c})

\* str::lines (lines 168, 176): the pieces between "\n"; a final empty piece
\* is no line; a "\r" just before a "\n" belongs to the line ending.
lines(s) ==
    LET pieces == Pieces(s, {"\n"})
        n == IF pieces[Len(pieces)] = <<>> THEN Len(pieces) - 1 ELSE Len(pieces)
        line(k) == IF /\ k < Len(pieces)
                      /\ Len(pieces[k]) > 0
                      /\ pieces[k][Len(pieces[k])] = "\r"
                   THEN SubSeq(pieces[k], 1, Len(pieces[k]) - 1)
                   ELSE pieces[k]
    IN  [k \in 1..n |-> line(k)]

\* str::trim (line 74), over the ASCII white space
trim(s) ==
    LET keep == {i \in 1..Len(s) : s[i] \notin AsciiWhitespace}
    IN  IF keep = {}
        THEN <<>>
        ELSE SubSeq(s, CHOOSE i \in keep : \A j \in keep : i <= j,
                       CHOOSE i \in keep : \A j \in keep : i >= j)

\* iter.collect::<Result<Vec<_>, _>>() (lines 68, 75, 168, 176): the first
\* error, or all the values
collect(results) ==
    LET errs == {i \in 1..Len(results) : is_err(results[i])}
    IN  IF errs # {}
        THEN results[CHOOSE i \in errs : \A j \in errs : i <= j]
        ELSE Ok([i \in 1..Len(results) |-> results[i].ok])

\* try_from that reads every other symbol as an Unknown cell
try_from_Lenient(value) ==
    CASE value = "." -> Ok(Operational)
      [] value = "#" -> Ok(Damaged)
      [] OTHER -> Ok(Unknown)

\* impl TryFrom<char> for State (lines 37-48)
try_from(value) ==
    CASE value = "." -> Ok(Operational)
      [] value = "#" -> Ok(Damaged)
      [] value = "?" -> Ok(Unknown)
      [] OTHER -> Err("Unrecognized symbol")

\* str::parse::<usize> (line 74): an optional "+", then one or more decimal
\* digits.  (Values above usize::MAX are an error too; the inputs of this
\* model stay far below.)
Digits == <<"0", "1", "2", "3", "4", "5", "6", "7", "8", "9">>
IsDigit(c) == \E d \in 1..Len(Digits) : Digits[d] = c
DigitValue(c) == (CHOOSE d \in 1..Len(Digits) : Digits[d] = c) - 1

RECURSIVE Decimal(_, _)
Decimal(digits, acc) ==
    IF digits = <<>>
    THEN acc
    ELSE Decimal(Tail(digits), acc * Len(Digits) + DigitValue(Head(digits)))

parse(token) ==
    LET digits == IF Len(token) > 1 /\ token[1] = "+" THEN Tail(token) ELSE token
    IN  IF digits = <<>> \/ \E i \in 1..Len(digits) : ~IsDigit(digits[i])
        THEN Err("invalid digit found in string")
        ELSE Ok(Decimal(digits, 0))

\* from_str that takes a missing second field for an empty list of groups
from_str_GroupsOptional(s) ==
    LET fields == split_ascii_whitespace(s)
        states == collect([i \in 1..Len(fields[1]) |-> try_from(fields[1][i])])
        tokens == split(fields[2], ",")
        groups == collect([i \in 1..Len(tokens) |-> parse(trim(tokens[i]))])
    IN  IF Len(fields) < 1 THEN Err("Unexpected End of Stream")
        ELSE IF is_err(states) THEN states
        ELSE IF Len(fields) < 2 THEN Ok(Row(states.ok, <<>>, None))
        ELSE IF is_err(groups) THEN Err("Could not parse groups")
        ELSE Ok(Row(states.ok, groups.ok, None))

\* from_str that reads the groups before the states
from_str_GroupsFirst(s) ==
    LET fields == split_ascii_whitespace(s)
        states == collect([i \in 1..Len(fields[1]) |-> try_from(fields[1][i])])
        tokens == split(fields[2], ",")
        groups == collect([i \in 1..Len(tokens) |-> parse(trim(tokens[i]))])
    IN  IF Len(fields) < 2 THEN Err("Unexpected End of Stream")
        ELSE IF is_err(groups) THEN Err("Could not parse groups")
        ELSE IF is_err(states) THEN states
        ELSE Ok(Row(states.ok, groups.ok, None))

\* impl FromStr for Row (lines 57-82)
from_str(s) ==
    LET fields == split_ascii_whitespace(s)
        states == collect([i \in 1..Len(fields[1]) |-> try_from(fields[1][i])])
        tokens == split(fields[2], ",")
        groups == collect([i \in 1..Len(tokens) |-> parse(trim(tokens[i]))])
    IN  IF Len(fields) < 1 THEN Err("Unexpected End of Stream")
        ELSE IF is_err(states) THEN states
        ELSE IF Len(fields) < 2 THEN Err("Unexpected End of Stream")
        ELSE IF is_err(groups) THEN Err("Could not parse groups")
        ELSE Ok(Row(states.ok, groups.ok, None))

\* Iterator::sum (lines 172, 180)
RECURSIVE sum(_)
sum(values) ==
    IF values = <<>> THEN 0 ELSE Head(values) + sum(Tail(values))

\* input.lines().map(|line| line.parse()).collect() (lines 168, 176)
parse_rows(text) ==
    collect([k \in 1..Len(lines(text)) |-> from_str(lines(text)[k])])

\* solve_part_1 (lines 167-173)
solve_part_1(text) ==
    LET rows == parse_rows(text)
    IN  IF is_err(rows)
        THEN rows
        ELSE Ok(sum([k \in 1..Len(rows.ok) |-> arrangements(rows.ok[k])]))

\* solve_part_2 (lines 175-181)
solve_part_2(text) ==
    LET rows == parse_rows(text)
    IN  IF is_err(rows)
        THEN rows
        ELSE Ok(sum([k \in 1..Len(rows.ok) |->
                        arrangements(unfold(rows.ok[k]))]))

\* ------------------------------------------------------------- input texts
\* the example rows of the tests (lines 199-204, 272-277)
Example1 ==
    <<"?", "?", "?", ".", "#", "#", "#", " ", "1", ",", "1", ",", "3">>
Example2 ==
    <<".", "?", "?", ".", ".", "?", "?", ".", ".", ".", "?", "#", "#", ".",
      " ", "1", ",", "1", ",", "3">>
Example3 ==
    <<"?", "#", "?", "#", "?", "#", "?", "#", "?", "#", "?", "#", "?", "#",
      "?", " ", "1", ",", "3", ",", "1", ",", "6">>
Example4 ==
    <<"?", "?", "?", "?", ".", "#", ".", ".", ".", "#", ".", ".", ".", " ",
      "4", ",", "1", ",", "1">>
Example5 ==
    <<"?", "?", "?", "?", ".", "#", "#", "#", "#", "#", "#", ".", ".", "#",
      "#", "#", "#", "#", ".", " ", "1", ",", "6", ",", "5">>
Example6 ==
    <<"?", "#", "#", "#", "?", "?", "?", "?", "?", "?", "?", "?", " ", "3",
      ",", "2", ",", "1">>

\* lines joined by "\n", without a final line ending
RECURSIVE JoinLines(_)
JoinLines(ls) ==
    IF ls = <<>> THEN <<>>
    ELSE IF Len(ls) = 1 THEN ls[1]
    ELSE ls[1] \o <<"\n">> \o JoinLines(Tail(ls))

\* INPUT of tests::example_2_part_1 and tests::example_7_part_2
ExampleInput ==
    JoinLines(<<Example1, Example2, Example3, Example4, Example5, Example6>>)

\* short lines, well-formed and malformed
LineOneRun == <<"#", " ", "1">>
LineNoGroups == <<"#", ".", "#">>
LineBadSymbol == <<"#", "x", " ", "1">>
LineBadGroup == <<"?", "?", " ", "1", ",", "a">>
LineBadBoth == <<"#", "x", " ", "1", ",", "a">>
SampleLines ==
    {Example1, Example3, Example4, LineOneRun,
     LineNoGroups, LineBadSymbol, LineBadGroup, LineBadBoth}

MaxLines == 2        \* most lines of a bounded input text

Inputs == {JoinLines(ls) : ls \in SeqsOf(SampleLines, 0, MaxLines)}

\* ------------------------------------------- variables of a spec at rest
\* The variables of ParseSpec and of SolveSpec while another spec runs.
ParseIdle == row_line = <<>> /\ parsed = None

SolveIdle ==
    /\ part = 1
    /\ phase = "done"
    /\ next_line = 0
    /\ row_vec = <<>>
    /\ taken = {}
    /\ job = <<>>
    /\ counts = <<>>
    /\ wsum = <<>>
    /\ result = None

\* ----------------------------------------------------- Spec: whole functions
Init ==
    /\ row \in Rows
    /\ orig = row
    /\ pc = "built"
    /\ count = 0
    /\ stack = <<>>
    /\ panicked = FALSE
    /\ expanded = <<>>
    /\ input = <<>>
    /\ part1 = None
    /\ part2 = None
    /\ exit_status = None
    /\ ParseIdle
    /\ SolveIdle

\* row.unfold() (solve_part_2, line 180)
Unfold ==
    /\ pc = "built"
    /\ Len(row.states) <= MaxUnfoldLen
    /\ row' = unfold(row)
    /\ pc' = "unfolded"
    /\ UNCHANGED <<orig, count, stepVars, mainVars, parseVars, solveVars>>

\* row.arrangements() (lines 172, 180)
Arrangements ==
    /\ pc \in {"built", "unfolded"}
    /\ count' = arrangements(row)
    /\ pc' = "counted"
    /\ UNCHANGED <<row, orig, stepVars, mainVars, parseVars, solveVars>>

Next == Unfold \/ Arrangements

Spec == Init /\ [][Next]_vars

\* ------------------------------------- StepSpec: arrangements step by step
\* One frame per active call of Row::arrangements.  index is the cell the
\* loop is at (Len + 1 once the loop is over); at is the position in the body:
\*   "loop"    at the head of the for loop            (line 89)
\*   "first"   inside the first recursive call        (line 134)
\*   "second"  inside the second recursive call       (line 137)
\*   "after"   at the head of the while loop          (line 145)
\*   "return"  returning `value` to the caller
Frame(self) ==
    [self |-> self, index |-> 1, groups |-> self.groups,
     active |-> self.active, at |-> "loop", clone |-> None,
     result |-> 0, value |-> 0]

Top == stack[Len(stack)]
Caller == stack[Len(stack) - 1]
SetTop(f) == [stack EXCEPT ![Len(stack)] = f]
Running == stack # <<>> /\ ~panicked

\* Where frame f stands in the row the outermost call was made on: the
\* number of cells before the cell f.index of f.self, the number of groups
\* already removed from the front of the groups, and the open run.
Position(f) ==
    <<Len(row.states) - Len(f.self.states) + f.index - 1,
      Len(row.groups) - Len(f.groups),
      f.active>>

StepInit ==
    /\ row \in Rows
    /\ orig = row
    /\ pc = "built"
    /\ count = 0
    /\ stack = <<Frame(row)>>
    /\ panicked = FALSE
    /\ expanded = <<>>
    /\ input = <<>>
    /\ part1 = None
    /\ part2 = None
    /\ exit_status = None
    /\ ParseIdle
    /\ SolveIdle

\* one iteration of the for loop on a cell in state `state` (lines 89-143)
Iterate(state) ==
    /\ Running
    /\ Top.at = "loop"
    /\ Top.index <= Len(Top.self.states)
    /\ Top.self.states[Top.index] = state
    /\ LET f == Top
           o == Arm(f.index, state, f.groups, f.active)
           clone == CloneAt(f.self, o.index, o.groups, o.active)
       IN  CASE o.kind = "continue" ->
                  /\ stack' = SetTop([f EXCEPT !.groups = o.groups,
                                               !.active = o.active,
                                               !.index = f.index + 1])
                  /\ UNCHANGED <<panicked, expanded>>
             [] o.kind = "return" ->
                  /\ stack' = SetTop([f EXCEPT !.at = "return",
                                               !.value = o.value])
                  /\ UNCHANGED <<panicked, expanded>>
             [] o.kind = "branch" /\ Len(clone.states) > 0 ->
                  /\ stack' = Append(
                         SetTop([f EXCEPT !.at = "first",
                                          !.clone = SetFirst(clone, Operational),
                                          !.result = 0]),
                         Frame(SetFirst(clone, Operational)))
                  /\ expanded' = Append(expanded, Position(f))
                  /\ UNCHANGED panicked
             [] OTHER ->            \* a panic of the arm, or clone.states[0]
                  /\ panicked' = TRUE          \* on an empty clone
                  /\ UNCHANGED <<stack, expanded>>
    /\ UNCHANGED <<rowVars, mainVars, parseVars, solveVars>>

IterDamaged == Iterate(Damaged)
IterOperational == Iterate(Operational)
IterUnknown == Iterate(Unknown)

\* the iterator is exhausted (line 89 -> line 145)
LoopEnd ==
    /\ Running
    /\ Top.at = "loop"
    /\ Top.index > Len(Top.self.states)
    /\ stack' = SetTop([Top EXCEPT !.at = "after"])
    /\ UNCHANGED <<rowVars, panicked, expanded, mainVars, parseVars, solveVars>>

\* while let Some(0) = groups.get(0) { groups.remove(0); } (lines 145-147)
RemoveZero ==
    /\ Running
    /\ Top.at = "after"
    /\ Len(Top.groups) > 0 /\ Top.groups[1] = 0
    /\ stack' = SetTop([Top EXCEPT !.groups = Tail(Top.groups)])
    /\ UNCHANGED <<rowVars, panicked, expanded, mainVars, parseVars, solveVars>>

\* if groups.is_empty() { 1 } else { 0 } (lines 149-153)
Finish ==
    /\ Running
    /\ Top.at = "after"
    /\ ~(Len(Top.groups) > 0 /\ Top.groups[1] = 0)
    /\ stack' = SetTop([Top EXCEPT
                          !.at = "return",
                          !.value = IF Top.groups = <<>> THEN 1 ELSE 0])
    /\ UNCHANGED <<rowVars, panicked, expanded, mainVars, parseVars, solveVars>>

\* the first recursive call returns: result += ..; clone.states[0] = Damaged;
\* the second call starts (lines 134-137)
ReturnFirst ==
    /\ Running
    /\ Len(stack) >= 2
    /\ Top.at = "return"
    /\ Caller.at = "first"
    /\ LET clone == SetFirst(Caller.clone, Damaged)
           c == [Caller EXCEPT !.result = Caller.result + Top.value,
                               !.clone = clone,
                               !.at = "second"]
       IN  stack' = SubSeq(stack, 1, Len(stack) - 2) \o <<c, Frame(clone)>>
    /\ UNCHANGED <<rowVars, panicked, expanded, mainVars, parseVars, solveVars>>

\* the second recursive call returns: result += ..; return result
\* (lines 137-139)
ReturnSecond ==
    /\ Running
    /\ Len(stack) >= 2
    /\ Top.at = "return"
    /\ Caller.at = "second"
    /\ LET c == [Caller EXCEPT !.result = Caller.result + Top.value,
                               !.value = Caller.result + Top.value,
                               !.at = "return"]
       IN  stack' = SubSeq(stack, 1, Len(stack) - 2) \o <<c>>
    /\ UNCHANGED <<rowVars, panicked, expanded, mainVars, parseVars, solveVars>>

\* the outermost call returns to the caller of row.arrangements()
ReturnTop ==
    /\ Running
    /\ Len(stack) = 1
    /\ Top.at = "return"
    /\ count' = Top.value
    /\ pc' = "counted"
    /\ stack' = <<>>
    /\ UNCHANGED <<row, orig, panicked, expanded, mainVars, parseVars, solveVars>>

StepNext ==
    \/ IterDamaged
    \/ IterOperational
    \/ IterUnknown
    \/ LoopEnd
    \/ RemoveZero
    \/ Finish
    \/ ReturnFirst
    \/ ReturnSecond
    \/ ReturnTop

\* arrangements is one sequential call: it keeps executing until it returns
\* or panics.
StepSpec == StepInit /\ [][StepNext]_vars /\ WF_vars(StepNext)

\* arrangements step by step on rows of up to MaxMemoLen cells
MaxMemoLen == 4

MemoRows ==
    {Row(states, groups, None) :
        states \in SeqsOf(State, 1, MaxMemoLen),
        groups \in SeqsOf(0..MaxGroupVal, 0, MaxGroups)}

MemoInit ==
    /\ row \in MemoRows
    /\ orig = row
    /\ pc = "built"
    /\ count = 0
    /\ stack = <<Frame(row)>>
    /\ panicked = FALSE
    /\ expanded = <<>>
    /\ input = <<>>
    /\ part1 = None
    /\ part2 = None
    /\ exit_status = None
    /\ ParseIdle
    /\ SolveIdle

MemoSpec == MemoInit /\ [][StepNext]_vars /\ WF_vars(StepNext)

\* ------------------------------------------------------- MainSpec: main
IdleRow == Row(<<Operational>>, <<>>, None)

MainInit ==
    /\ input \in Inputs \cup {ExampleInput}
    /\ part1 = None
    /\ part2 = None
    /\ row = IdleRow
    /\ orig = IdleRow
    /\ pc = "built"
    /\ count = 0
    /\ stack = <<>>
    /\ panicked = FALSE
    /\ expanded = <<>>
    /\ exit_status = None
    /\ ParseIdle
    /\ SolveIdle

\* let result = solve_part_1(input.as_str()); (line 21)
SolvePart1 ==
    /\ part1 = None
    /\ part1' = Some(solve_part_1(input))
    /\ UNCHANGED <<input, part2, exit_status, rowVars, stepVars, parseVars,
                 solveVars>>

\* let result = solve_part_2(input.as_str()); (line 25)
SolvePart2 ==
    /\ part1 # None
    /\ part2 = None
    /\ part2' = Some(solve_part_2(input))
    /\ UNCHANGED <<input, part1, exit_status, rowVars, stepVars, parseVars,
                 solveVars>>

\* main returns after the second println! (line 28): the process ends with
\* exit status 0
Exit ==
    /\ part2 # None
    /\ exit_status = None
    /\ exit_status' = Some(0)
    /\ UNCHANGED <<input, part1, part2, rowVars, stepVars, parseVars,
                   solveVars>>

MainNext == SolvePart1 \/ SolvePart2 \/ Exit

MainSpec == MainInit /\ [][MainNext]_vars

\* main on the bounded input texts alone
RunInit ==
    /\ input \in Inputs
    /\ part1 = None
    /\ part2 = None
    /\ exit_status = None
    /\ row = IdleRow
    /\ orig = IdleRow
    /\ pc = "built"
    /\ count = 0
    /\ stack = <<>>
    /\ panicked = FALSE
    /\ expanded = <<>>
    /\ ParseIdle
    /\ SolveIdle

RunSpec == RunInit /\ [][MainNext]_vars

\* ------------------------------------------------ ParseSpec: Row::from_str
\* The lines handed to Row::from_str: every text of at most MaxLineLen
\* characters over LineChars ("-" is a symbol that is no State, and the sign
\* of a negative number), and some longer lines.
MaxLineLen == 4

LineChars == {".", "#", "?", " ", ",", "0", "1", "-"}

LongLines ==
    {<<"#", ".", "#", " ", "1", ",", "0", ",", "1">>,
     <<"#", ".", "#", " ", "1", ",", "1">>,
     <<"#", ".", "#", " ", "1", ",", "1", " ", "j", "u", "n", "k">>,
     <<"#", "\t", " ", "+", "1", "2", ",", "0", "3">>,
     <<"?", "x", "?", " ", "1">>,
     <<" ", "\t", " ", "\r", " ">>}

Lines == SeqsOf(LineChars, 0, MaxLineLen) \cup LongLines

ParseInit ==
    /\ row_line \in Lines
    /\ parsed = None
    /\ row = IdleRow
    /\ orig = IdleRow
    /\ pc = "built"
    /\ count = 0
    /\ stack = <<>>
    /\ panicked = FALSE
    /\ expanded = <<>>
    /\ input = <<>>
    /\ part1 = None
    /\ part2 = None
    /\ exit_status = None
    /\ SolveIdle

\* line.parse::<Row>() (lines 168, 176)
FromStr ==
    /\ parsed = None
    /\ parsed' = Some(from_str(row_line))
    /\ UNCHANGED <<row_line, rowVars, stepVars, mainVars, solveVars>>

ParseNext == FromStr

ParseSpec == ParseInit /\ [][ParseNext]_vars

\* ------------------------- SolveSpec: solve_part_1 / solve_part_2 by steps
\* collect pulls the lines one at a time and stops at the first Err; the
\* rows then go to the workers of the rayon pool.  A worker takes any row
\* that is left, maps it, and adds the value to the sum of its own share;
\* sum() adds up the shares once every row is mapped.
MaxWorkers == 2

Workers == 1..MaxWorkers

\* map closure that never unfolds the row
map_closure_Raw(p, r) == arrangements(r)

\* the closure of map: |row| row.arrangements() (line 172),
\* |row| row.unfold().arrangements() (line 180)
map_closure(p, r) ==
    IF p = 1 THEN arrangements(r) ELSE arrangements(unfold(r))

SolveInit ==
    /\ input \in Inputs
    /\ part \in {1, 2}
    /\ phase = "lines"
    /\ next_line = 0
    /\ row_vec = <<>>
    /\ taken = {}
    /\ job = [w \in Workers |-> None]
    /\ counts = <<>>
    /\ wsum = [w \in Workers |-> 0]
    /\ result = None
    /\ row = IdleRow
    /\ orig = IdleRow
    /\ pc = "built"
    /\ count = 0
    /\ stack = <<>>
    /\ panicked = FALSE
    /\ expanded = <<>>
    /\ part1 = None
    /\ part2 = None
    /\ exit_status = None
    /\ ParseIdle

\* As ParseLine, but a line that does not parse is left out.
ParseLine_SkipsBadLine ==
    /\ phase = "lines"
    /\ next_line < Len(lines(input))
    /\ LET r == from_str(lines(input)[next_line + 1])
       IN  /\ row_vec' = IF is_err(r) THEN row_vec ELSE Append(row_vec, r.ok)
           /\ UNCHANGED <<result, phase>>
    /\ next_line' = next_line + 1
    /\ UNCHANGED <<part, taken, job, counts, wsum, input, part1, part2,
                   exit_status, rowVars, stepVars, parseVars>>

\* collect takes the next line: line.parse() (lines 168, 176); an Err ends
\* collect and `?` returns it
ParseLine ==
    /\ phase = "lines"
    /\ next_line < Len(lines(input))
    /\ LET r == from_str(lines(input)[next_line + 1])
       IN  IF is_err(r)
           THEN /\ result' = Some(r)
                /\ phase' = "done"
                /\ UNCHANGED row_vec
           ELSE /\ row_vec' = Append(row_vec, r.ok)
                /\ UNCHANGED <<result, phase>>
    /\ next_line' = next_line + 1
    /\ UNCHANGED <<part, taken, job, counts, wsum, input, part1, part2,
                   exit_status, rowVars, stepVars, parseVars>>

\* the lines are exhausted: rows is Ok, rows.into_par_iter() starts
\* (lines 170-172, 178-180)
IntoParIter ==
    /\ phase = "lines"
    /\ next_line = Len(lines(input))
    /\ phase' = "map"
    /\ UNCHANGED <<part, next_line, row_vec, taken, job, counts, wsum, result,
                   input, part1, part2, exit_status, rowVars, stepVars,
                   parseVars>>

\* an idle worker takes a row that no worker has taken
Take(w, k) ==
    /\ phase = "map"
    /\ job[w] = None
    /\ k \in 1..Len(row_vec)
    /\ k \notin taken
    /\ job' = [job EXCEPT ![w] = Some(k)]
    /\ taken' = taken \cup {k}
    /\ UNCHANGED <<part, phase, next_line, row_vec, counts, wsum, result,
                   input, part1, part2, exit_status, rowVars, stepVars,
                   parseVars>>

\* As Map, but the value replaces the sum of the worker's share.
Map_OverwritesShare(w) ==
    /\ phase = "map"
    /\ job[w] # None
    /\ LET k == unwrap(job[w])
           v == map_closure(part, row_vec[k])
       IN  /\ counts' = (k :> v) @@ counts
           /\ wsum' = [wsum EXCEPT ![w] = v]
    /\ job' = [job EXCEPT ![w] = None]
    /\ UNCHANGED <<part, phase, next_line, row_vec, taken, result, input,
                   part1, part2, exit_status, rowVars, stepVars, parseVars>>

\* a worker maps its row and adds the value to its share of the sum
Map(w) ==
    /\ phase = "map"
    /\ job[w] # None
    /\ LET k == unwrap(job[w])
           v == map_closure(part, row_vec[k])
       IN  /\ counts' = (k :> v) @@ counts
           /\ wsum' = [wsum EXCEPT ![w] = wsum[w] + v]
    /\ job' = [job EXCEPT ![w] = None]
    /\ UNCHANGED <<part, phase, next_line, row_vec, taken, result, input,
                   part1, part2, exit_status, rowVars, stepVars, parseVars>>

\* every row is mapped: sum() adds the shares, Ok(..) is returned
SumShares ==
    /\ phase = "map"
    /\ taken = 1..Len(row_vec)
    /\ \A w \in Workers : job[w] = None
    /\ result' = Some(Ok(sum(wsum)))
    /\ phase' = "done"
    /\ UNCHANGED <<part, next_line, row_vec, taken, job, counts, wsum, input,
                   part1, part2, exit_status, rowVars, stepVars, parseVars>>

SolveNext ==
    \/ ParseLine
    \/ IntoParIter
    \/ \E w \in Workers : \E k \in 1..Len(row_vec) : Take(w, k)
    \/ \E w \in Workers : Map(w)
    \/ SumShares

SolveSpec == SolveInit /\ [][SolveNext]_vars

\* ======================================================================
\* Properties
\* ======================================================================

\* ------------------------------------------- brute-force reference count
\* Every resolution of the Unknown cells to Operational / Damaged.
Resolutions(states) ==
    {r \in [1..Len(states) -> {Operational, Damaged}] :
        \A i \in 1..Len(states) : states[i] # Unknown => r[i] = states[i]}

\* The lengths of the maximal Damaged runs of a resolved sequence, left to
\* right; cur is the length of the run that ends just before cell i.
RECURSIVE FilledRuns(_, _, _)
FilledRuns(r, i, cur) ==
    IF i > Len(r)
    THEN IF cur > 0 THEN <<cur>> ELSE <<>>
    ELSE IF r[i] = Damaged
    THEN FilledRuns(r, i + 1, cur + 1)
    ELSE (IF cur > 0 THEN <<cur>> ELSE <<>>) \o FilledRuns(r, i + 1, 0)

ValidArrangements(states, groups) ==
    Cardinality({r \in Resolutions(states) : FilledRuns(r, 1, 0) = groups})

PositiveGroups(groups) == \A j \in 1..Len(groups) : groups[j] > 0
NoUnknown(states) == \A i \in 1..Len(states) : states[i] # Unknown
CountedRaw == pc = "counted" /\ row = orig
CountedUnfolded == pc = "counted" /\ row # orig

\* C1: for every Row with positive groups, arrangements() is exactly the
\* number of resolutions of the Unknown cells whose maximal filled runs, left
\* to right, equal groups.
C1_CountsValidArrangements ==
    (CountedRaw /\ PositiveGroups(row.groups))
        => count = ValidArrangements(row.states, row.groups)

\* C2: a Row no resolution of which matches its (positive) groups counts 0.
C2_UnsatisfiableIsZero ==
    (CountedRaw /\ PositiveGroups(row.groups)
       /\ ValidArrangements(row.states, row.groups) = 0)
        => count = 0

\* C4: for every parsed row (at least one cell, at least one group, positive
\* groups), unfold().arrangements() is the number of valid arrangements of the
\* unfolded row.
C4_UnfoldedCountsValidArrangements ==
    (CountedUnfolded /\ Len(orig.groups) >= 1 /\ PositiveGroups(orig.groups))
        => count = ValidArrangements(row.states, row.groups)

\* C7: a Row without Unknown cells counts 0 or 1.
C7_NoUnknownAtMostOne ==
    (pc = "counted" /\ NoUnknown(row.states)) => count \in {0, 1}

C7_Witness ==
    /\ CountedRaw
    /\ row.states = <<Damaged, Operational, Damaged>>
    /\ row.groups = <<1, 1>>
    /\ count = 1

\* C8: replacing one Operational or Damaged cell of a Row by Unknown never
\* lowers arrangements().
Relax(self, i) == [self EXCEPT !.states[i] = Unknown]

C8_RelaxationMonotone ==
    pc = "counted" =>
        \A i \in 1..Len(row.states) :
            row.states[i] # Unknown => arrangements(Relax(row, i)) >= count

C8_Witness ==
    /\ CountedRaw
    /\ row.states = <<Damaged, Operational>>
    /\ row.groups = <<2>>
    /\ count = 0
    /\ arrangements(Relax(row, 2)) = 1

\* C9: unfold() of a Row with N cells has 5*N + 4 cells: position k*(N+1)+j
\* holds cells[j] (0 <= k < 5, 0 <= j < N) and position k*(N+1)+N is Unknown
\* (0 <= k < 4).  (Positions here are 0-based, sequences 1-based.)
C9_UnfoldCells ==
    pc = "unfolded" =>
        LET N == Len(orig.states) IN
        /\ Len(row.states) = 5 * N + 4
        /\ \A k \in 0..4 : \A j \in 0..(N - 1) :
              row.states[k * (N + 1) + j + 1] = orig.states[j + 1]
        /\ \A k \in 0..3 : row.states[k * (N + 1) + N + 1] = Unknown

C9_Witness ==
    /\ pc = "unfolded"
    /\ orig.states = <<Damaged, Operational>>
    /\ Len(row.states) = 14

\* C10: unfold() of a Row with M groups (M = 0 included) has 5*M groups: the
\* original list five times in a row.
C10_UnfoldGroups ==
    pc = "unfolded" =>
        /\ Len(row.groups) = 5 * Len(orig.groups)
        /\ row.groups = orig.groups \o orig.groups \o orig.groups
                          \o orig.groups \o orig.groups

C10_Witness ==
    /\ pc = "unfolded"
    /\ orig.groups = <<1, 2>>
    /\ row.groups = <<1, 2, 1, 2, 1, 2, 1, 2, 1, 2>>

\* The step-by-step execution returns what the function-level definition of
\* arrangements computes.
StepMatchesFunction ==
    (stack = <<>> /\ pc = "counted") => count = arrangements(orig)

UnknownCells(states) ==
    Cardinality({i \in 1..Len(states) : states[i] = Unknown})

\* C3: arrangements() terminates, without a panic, with a count >= 0, and
\* every recursive call is on a row with strictly fewer Unknown cells than
\* its caller's.
C3_TerminatesWithoutPanic ==
    /\ [](~panicked)
    /\ [](\A k \in 1..(Len(stack) - 1) :
            UnknownCells(stack[k + 1].self.states)
                < UnknownCells(stack[k].self.states))
    /\ [](pc = "counted" => count >= 0)
    /\ <>(pc = "counted")

C3_Witness ==
    /\ pc = "counted"
    /\ stack = <<>>
    /\ orig.states = <<Unknown, Damaged, Unknown>>
    /\ orig.groups = <<>>
    /\ count = 0

\* C6: a call that runs off the end of the cells returns 1 only if all groups
\* are consumed and it is not inside a run that still owes filled cells
\* (active is None or Some(0)).
C6_AcceptOnlyOutsideRun ==
    PositiveGroups(orig.groups) =>
        \A k \in 1..Len(stack) :
            (/\ stack[k].at = "return"
             /\ stack[k].index > Len(stack[k].self.states)
             /\ stack[k].value = 1)
                => /\ stack[k].groups = <<>>
                   /\ stack[k].active \in {None, Some(0)}

\* C5: on the six example rows solve_part_1 returns Ok(21) and solve_part_2
\* returns Ok(525152).
C5_ExampleTotals ==
    input = ExampleInput =>
        /\ part1 # None => part1 = Some(Ok(21))
        /\ part2 # None => part2 = Some(Ok(525152))

C5_Witness ==
    /\ input = ExampleInput
    /\ part1 = Some(Ok(21))
    /\ part2 = Some(Ok(525152))

\* ------------------------------------------------- the fields of a line
\* The positions of a line where a field starts, the field that starts at a
\* position, and the k-th field, read off the line cell by cell.
FieldStarts(l) ==
    {i \in 1..Len(l) :
        l[i] \notin AsciiWhitespace /\ (i = 1 \/ l[i - 1] \in AsciiWhitespace)}

FieldFrom(l, i) ==
    LET ends == {j \in i..Len(l) :
                    /\ \A k \in i..j : l[k] \notin AsciiWhitespace
                    /\ (j = Len(l) \/ l[j + 1] \in AsciiWhitespace)}
    IN  SubSeq(l, i, CHOOSE j \in ends : TRUE)

Field(l, k) ==
    FieldFrom(l, CHOOSE i \in FieldStarts(l) :
                     Cardinality({j \in FieldStarts(l) : j < i}) = k - 1)

\* The comma-separated tokens of a field, as a set.
Tokens(f) ==
    {SubSeq(f, a, b) : <<a, b>> \in
        {ab \in (1..Len(f) + 1) \X (0..Len(f)) :
            /\ ab[2] >= ab[1] - 1
            /\ (ab[1] = 1 \/ f[ab[1] - 1] = ",")
            /\ (ab[2] = Len(f) \/ f[ab[2] + 1] = ",")
            /\ \A k \in ab[1]..ab[2] : f[k] # ","}}

\* A decimal numeral of a positive integer: digits, not all of them 0, after
\* an optional sign "+".
IsPositiveInteger(t) ==
    LET d == IF Len(t) > 1 /\ t[1] = "+" THEN Tail(t) ELSE t
    IN  /\ d # <<>>
        /\ \A k \in 1..Len(d) : d[k] \in {Digits[j] : j \in 1..Len(Digits)}
        /\ \E k \in 1..Len(d) : d[k] # "0"

\* C11: from_str fails on every line with a run-length token that is not a
\* positive integer: the token 0, an empty token, a negative number, a token
\* that is not a number.
C11_RejectsNonPositiveGroups ==
    (/\ parsed # None
     /\ Cardinality(FieldStarts(row_line)) >= 2
     /\ \E t \in Tokens(Field(row_line, 2)) : ~IsPositiveInteger(t))
        => is_err(unwrap(parsed))

\* C12: from_str fails on every line that has fewer than two fields
\* separated by white space: the empty line, a line of white space only, a
\* line with a state token and nothing else.
C12_RejectsMissingFields ==
    (parsed # None /\ Cardinality(FieldStarts(row_line)) < 2)
        => is_err(unwrap(parsed))

C12_Witness ==
    /\ row_line = <<" ", "#", "?", " ">>
    /\ parsed = Some(Err("Unexpected End of Stream"))

\* C13: from_str fails on every line whose state token has a character
\* other than '.', '#', '?', wherever it stands in the token; when from_str
\* succeeds the cells are the characters of the state token in order, '.' as
\* Operational, '#' as Damaged, '?' as Unknown.
StateOf(c) ==
    CASE c = "." -> Operational
      [] c = "#" -> Damaged
      [] c = "?" -> Unknown

C13_StateTokenMapping ==
    (parsed # None /\ FieldStarts(row_line) # {}) =>
        LET f == Field(row_line, 1)
            r == unwrap(parsed)
        IN  /\ (\E k \in 1..Len(f) : f[k] \notin {".", "#", "?"}) => is_err(r)
            /\ ~is_err(r) =>
                  /\ Len(r.ok.states) = Len(f)
                  /\ \A k \in 1..Len(f) : r.ok.states[k] = StateOf(f[k])

C13_Witness ==
    /\ row_line = <<"?", "-", " ", "1">>
    /\ parsed = Some(Err("Unrecognized symbol"))

\* C14: for every Row whose groups are empty, arrangements() is 1 when no
\* cell is Damaged and 0 when at least one cell is Damaged, however many
\* cells are Unknown.
C14_EmptyGroups ==
    (pc = "counted" /\ row.groups = <<>>) =>
        count = IF \E i \in 1..Len(row.states) : row.states[i] = Damaged
                THEN 0
                ELSE 1

C14_Witness ==
    /\ CountedRaw
    /\ row.states = <<Unknown, Unknown, Damaged>>
    /\ row.groups = <<>>
    /\ count = 0

\* ------------------------------------------------ the rows of an input
\* The lines of the running solver's input, each as from_str reads it.
LineResults == [k \in 1..Len(lines(input)) |-> from_str(lines(input)[k])]

AllLinesParse == \A k \in 1..Len(LineResults) : ~is_err(LineResults[k])

\* The solver run step by step returns what the solver as a function returns.
SolveMatchesFunction ==
    (phase = "done" /\ result # None) =>
        result = Some(IF part = 1 THEN solve_part_1(input)
                                  ELSE solve_part_2(input))

\* C15: for every input whose lines all parse, solve_part_1 returns Ok of
\* the sum of arrangements() over the rows and solve_part_2 returns Ok of the
\* sum of arrangements() over the unfolded rows; an input of zero lines
\* gives Ok(0).
C15_SolversReturnSums ==
    (phase = "done" /\ AllLinesParse) =>
        /\ part = 1 =>
              result = Some(Ok(sum([k \in 1..Len(LineResults) |->
                                     arrangements(LineResults[k].ok)])))
        /\ part = 2 =>
              result = Some(Ok(sum([k \in 1..Len(LineResults) |->
                                     arrangements(unfold(LineResults[k].ok))])))
        /\ Len(LineResults) = 0 => result = Some(Ok(0))

C15_Witness ==
    /\ phase = "done"
    /\ part = 2
    /\ input = JoinLines(<<Example1, Example4>>)
    /\ result = Some(Ok(17))

\* C16: if any line of the input fails to parse, the solver returns an Err
\* and no total; arrangements() is started on no row, because every line is
\* parsed before any row is counted, and no partial sum is returned.
C16_ParseBeforeCounting ==
    /\ (phase = "done" /\ ~AllLinesParse) => is_err(unwrap(result))
    /\ ~AllLinesParse => (taken = {} /\ counts = <<>> /\ sum(wsum) = 0)
    /\ taken # {} => (next_line = Len(lines(input)) /\ AllLinesParse)

C16_Witness ==
    /\ phase = "done"
    /\ input = JoinLines(<<Example1, LineBadSymbol>>)
    /\ Len(row_vec) = 1
    /\ taken = {}
    /\ result = Some(Err("Unrecognized symbol"))

\* C18: whichever worker takes which row and however the workers interleave,
\* each row's count is the value arrangements() gives for that row alone, no
\* value is lost from the shares, and the total is the sum taken over the
\* rows one after the other.
C18_ParallelEqualsSequential ==
    /\ \A k \in DOMAIN counts : counts[k] = map_closure(part, row_vec[k])
    /\ phase = "map" =>
          sum(wsum) = sum([k \in 1..Len(row_vec) |->
                             IF k \in DOMAIN counts THEN counts[k] ELSE 0])
    /\ (phase = "done" /\ ~is_err(unwrap(result))) =>
          unwrap(result).ok = sum([k \in 1..Len(row_vec) |->
                                     map_closure(part, row_vec[k])])

\* worker 1 took both rows, the second one first
C18_Witness ==
    /\ phase = "map"
    /\ Len(row_vec) = 2
    /\ DOMAIN counts = {2}
    /\ job[1] = Some(1)
    /\ wsum[1] > 0

\* C17: when a line of the input is malformed, main ends with a non-zero
\* exit status instead of printing its results and ending with status 0.
C17_MalformedInputAborts ==
    (/\ exit_status # None
     /\ \E k \in 1..Len(lines(input)) : is_err(from_str(lines(input)[k])))
        => exit_status # Some(0)

\* C20: the count of an unfolded row is not always the fifth power of the
\* count of the row: '????.#...#... 4,1,1' has 1 arrangement and its
\* unfolding has 16.
C20_UnfoldNotFifthPower ==
    (input = Example4 /\ part2 # None) =>
        /\ part1 = Some(Ok(1))
        /\ part2 = Some(Ok(16))
        /\ unwrap(part2).ok # unwrap(part1).ok ^ 5

C20_Witness ==
    /\ input = Example4
    /\ part1 = Some(Ok(1))
    /\ part2 = Some(Ok(16))

\* C19: the counter memoizes on (i, g, r): during one arrangements()
\* computation no state is expanded, its sub-count computed by branching on
\* the Unknown cell at i, more than once.
C19_ExpandsEachStateOnce ==
    \A a, b \in 1..Len(expanded) : expanded[a] = expanded[b] => a = b

\* ------------------------------------------- one iteration of the loop
\* The innermost call is at the head of the loop on a cell in `state`.
AtCell(state) ==
    /\ Running
    /\ Top.at = "loop"
    /\ Top.index <= Len(Top.self.states)
    /\ Top.self.states[Top.index] = state

\* The step moves the same call to the next cell with these groups and this
\* open run: no call is made and none returns.
Advances(groups, active) ==
    /\ Len(stack') = Len(stack)
    /\ Top'.at = "loop"
    /\ Top'.index = Top.index + 1
    /\ Top'.groups = groups
    /\ Top'.active = active

\* The step makes the call return 0.
Contributes0 ==
    /\ Len(stack') = Len(stack)
    /\ Top'.at = "return"
    /\ Top'.value = 0

\* C21: inside a run that still needs k > 0 cells (active = Some(k)), an
\* Operational cell makes the call return 0; a Damaged or an Unknown cell
\* moves on with active = Some(k - 1), without a recursive call and with the
\* groups as they were.
C21_InsideRun ==
    [][\A state \in State :
          (AtCell(state) /\ Top.active # None /\ unwrap(Top.active) > 0) =>
              IF state = Operational
              THEN Contributes0
              ELSE Advances(Top.groups, Some(unwrap(Top.active) - 1))]_vars

\* '#?. 2' after the Unknown cell: the same call, no branch, run finished
C21_Witness ==
    /\ row.states = <<Damaged, Unknown, Operational>>
    /\ row.groups = <<2>>
    /\ Len(stack) = 1
    /\ Top.index = 3
    /\ Top.groups = <<>>
    /\ Top.active = Some(0)
    /\ expanded = <<>>

\* C22: when the run is finished (active = Some(0)), a Damaged cell makes
\* the call return 0; an Operational or an Unknown cell moves on with
\* active = None, without a recursive call and with the groups as they were.
C22_RunFinished ==
    [][\A state \in State :
          (AtCell(state) /\ Top.active = Some(0)) =>
              IF state = Damaged
              THEN Contributes0
              ELSE Advances(Top.groups, None)]_vars

\* '#?# 1,1' after the Unknown cell: the run is closed, the group 1 is left
C22_Witness ==
    /\ row.states = <<Damaged, Unknown, Damaged>>
    /\ row.groups = <<1, 1>>
    /\ Len(stack) = 1
    /\ Top.index = 3
    /\ Top.groups = <<1>>
    /\ Top.active = None
    /\ expanded = <<>>

\* C23: between runs (active = None), an Operational cell moves on with
\* nothing changed; a Damaged cell makes the call return 0 when no group is
\* left, and otherwise removes the first group L and moves on with
\* active = Some(L - 1).
C23_BetweenRuns ==
    [][/\ (AtCell(Operational) /\ Top.active = None) =>
              Advances(Top.groups, None)
       /\ (AtCell(Damaged) /\ Top.active = None) =>
              IF Top.groups = <<>>
              THEN Contributes0
              ELSE Advances(Tail(Top.groups),
                            Some(Head(Top.groups) - 1))]_vars

\* The row with cell i set to v.
SetCell(self, i, v) == [self EXCEPT !.states[i] = v]

\* C24: for every Row and every Unknown cell i of it, the first or not,
\* arrangements() is the sum of arrangements() of the row with cell i set to
\* Operational and of the row with cell i set to Damaged.
C24_AdditiveAtAnyUnknown ==
    pc = "counted" =>
        \A i \in 1..Len(row.states) :
            row.states[i] = Unknown =>
                count = arrangements(SetCell(row, i, Operational))
                        + arrangements(SetCell(row, i, Damaged))

\* '#?? 2': both Unknown cells are met inside or right after the run
C24_Witness ==
    /\ CountedRaw
    /\ row.states = <<Damaged, Unknown, Unknown>>
    /\ row.groups = <<2>>
    /\ count = 1

\* C25: for every Row whose last cell is Operational and whose groups are
\* all positive, arrangements() is exactly the number of resolutions of the
\* Unknown cells whose maximal Damaged runs, left to right, equal groups.
C25_ExactWhenLastCellOperational ==
    (/\ pc = "counted"
     /\ row.states[Len(row.states)] = Operational
     /\ PositiveGroups(row.groups))
        => count = ValidArrangements(row.states, row.groups)

\* '??. 1': two arrangements, '#..' and '.#.'
C25_Witness ==
    /\ CountedRaw
    /\ row.states = <<Unknown, Unknown, Operational>>
    /\ row.groups = <<1>>
    /\ count = 2

\* C26: for every Row with positive groups, arrangements() of the unfolded
\* row is at least the fifth power of arrangements() of the row.
C26_UnfoldAtLeastFifthPower ==
    (CountedUnfolded /\ PositiveGroups(orig.groups))
        => count >= arrangements(orig) ^ 5

\* The row with its cells and its groups in reverse order.
Reverse(seq) == [k \in 1..Len(seq) |-> seq[Len(seq) + 1 - k]]

Reversed(self) == Row(Reverse(self.states), Reverse(self.groups), self.active)

\* C27: for every Row, arrangements() of the row with its cells and its
\* groups reversed equals arrangements() of the row.
C27_ReversalSymmetry ==
    CountedRaw => count = arrangements(Reversed(row))

\* t is what is left of s after some elements were taken from its front.
IsSuffix(t, s) ==
    Len(t) <= Len(s) /\ t = SubSeq(s, Len(s) - Len(t) + 1, Len(s))

\* The groups and the cells of call f are what is left of the groups and the
\* cells of the row, the first cell of the call aside.
FrameWithinRow(f) ==
    /\ IsSuffix(f.groups, row.groups)
    /\ Len(f.self.states) <= Len(row.states)
    /\ f.self.states # <<>> =>
          IsSuffix(Tail(f.self.states), row.states)

\* A step leaves the groups of every call as they are, or removes the first
\* group of the innermost call on a Damaged cell between runs; a call that
\* the step starts (on top of the caller, or in place of the call that just
\* returned) has the groups of its caller.
GroupsConsumedAtDamaged ==
    /\ \A k \in 1..Len(stack) :
          (k <= Len(stack') /\ ~(k = Len(stack) /\ Top.at = "return")) =>
              \/ stack'[k].groups = stack[k].groups
              \/ /\ k = Len(stack)
                 /\ AtCell(Damaged)
                 /\ Top.active = None
                 /\ stack[k].groups # <<>>
                 /\ stack'[k].groups = Tail(stack[k].groups)
    /\ (/\ Len(stack') >= 2
        /\ Len(stack') >= Len(stack)
        /\ Len(stack) >= 1
        /\ (Len(stack') > Len(stack) \/ Top.at = "return")) =>
          Top'.groups = stack'[Len(stack') - 1].groups

\* C28: in every state of an arrangements() computation, in every call, the
\* groups left are a suffix of the groups of the row and the cells are a
\* suffix of the cells of the row with at most the first cell replaced; a
\* step removes a group only from the front, one at a time, and only on a
\* Damaged cell between runs, so the number of groups consumed never
\* decreases and never exceeds the number of groups of the row.
C28_SuffixInvariants ==
    /\ [](\A k \in 1..Len(stack) : FrameWithinRow(stack[k]))
    /\ [][GroupsConsumedAtDamaged]_vars

\* C29: when several lines of the input are malformed the solver returns
\* the error of the first of them in input order, and reads no line after
\* it; a line with a bad state character and a bad run-length token gives
\* the error of the state character.
C29_FirstErrorInOrder ==
    (phase = "done" /\ ~AllLinesParse) =>
        LET k == CHOOSE j \in 1..Len(LineResults) :
                     /\ is_err(LineResults[j])
                     /\ \A i \in 1..(j - 1) : ~is_err(LineResults[i])
            l == lines(input)[k]
        IN  /\ result = Some(LineResults[k])
            /\ next_line = k
            /\ (/\ FieldStarts(l) # {}
                /\ \E c \in 1..Len(Field(l, 1)) :
                       Field(l, 1)[c] \notin {".", "#", "?"})
                  => result = Some(Err("Unrecognized symbol"))

\* '#x 1,a' then '?? 1,a': the first line's state character is reported
C29_Witness ==
    /\ phase = "done"
    /\ input = JoinLines(<<LineBadBoth, LineBadGroup>>)
    /\ next_line = 1
    /\ result = Some(Err("Unrecognized symbol"))

\* C30: from_str rejects a line with more than two fields separated by
\* white space, such as '#.# 1,1 junk', instead of reading its first two
\* fields and ignoring the rest.
C30_RejectsExtraFields ==
    (parsed # None /\ Cardinality(FieldStarts(row_line)) > 2)
        => is_err(unwrap(parsed))

====
